---- MODULE Spec2Model ----
(***************************************************************************)
(* AirStatus: one bounded polling run that scans BLE advertisements,       *)
(* selects the AirPods proximity payload and decodes it.  Two program      *)
(* variants exist: airstatus.py and main.py.  They share retry_on_none,    *)
(* fetch_airpods_raw_data and main; they differ in parse_airpods_data.     *)
(*                                                                         *)
(* Python values are represented as follows.                               *)
(*   bytes            a sequence of byte values 0..255 (a blob) or, for    *)
(*                    the output of hexlify, a sequence of one-character   *)
(*                    strings                                              *)
(*   Optional / JSON  None (null) is << >>, a present value v is << v >>   *)
(*   dict             a function (manufacturer_data) or a record           *)
(***************************************************************************)
EXTENDS Integers, Sequences, FiniteSets, TLC

VARIABLES variant, times, pc, i, devices, scanned, val, results, trace, stdout,
          exitCode, err

vars == <<variant, times, pc, i, devices, scanned, val, results, trace, stdout,
          exitCode, err>>

(* ------------------------------ constants ------------------------------ *)

MIN_RSSI == -60
AIRPODS_MANUFACTURER == 76
AIRPODS_DATA_LENGTH == 54
RETRY_TIMES == 10

(* ------------------------------- bounds -------------------------------- *)

\* retry_on_none is generic in `times`: besides the deployed 10, every
\* value 0..MaxTimes is explored.
MaxTimes == 2
\* the longest batch of advertisement records one discover() returns
MaxDevices == 2

(* ------------------------------ Optional ------------------------------- *)

None == << >>
Some(v) == << v >>

(* --------------------------- hex conversions --------------------------- *)

HexChars == <<"0", "1", "2", "3", "4", "5", "6", "7",
              "8", "9", "a", "b", "c", "d", "e", "f">>

UpperHexChars == <<"A", "B", "C", "D", "E", "F">>

\* binascii.hexlify: two lowercase hex characters per byte, high nibble first
hexlify(data) ==
    [k \in 1..(2 * Len(data)) |->
        IF k % 2 = 1 THEN HexChars[(data[(k + 1) \div 2] \div 16) + 1]
                     ELSE HexChars[(data[k \div 2] % 16) + 1]]

\* int(chr(c), 16) on a single character: 0..15 for 0-9, a-f and A-F;
\* -1 stands for the ValueError any other character raises
HexValue(c) ==
    IF \E n \in 1..16 : HexChars[n] = c
        THEN (CHOOSE n \in 1..16 : HexChars[n] = c) - 1
    ELSE IF \E n \in 1..6 : UpperHexChars[n] = c
        THEN (CHOOSE n \in 1..6 : UpperHexChars[n] = c) + 9
    ELSE -1

\* n & (1 << k) != 0
BitSet(n, k) == (n \div (2 ^ k)) % 2 = 1

\* raw[k] with Python's 0-based index
At(raw, k) == raw[k + 1]

(* ------------------------------- decoder ------------------------------- *)

\* the model table's .get(chr(raw[7]), "Unknown")
ModelName(c) ==
    CASE c = "2" -> "Airpods 1"
      [] c = "f" -> "Airpods 2"
      [] c = "e" -> "Airpods Pro"
      [] c = "a" -> "Airpods Max"
      [] OTHER   -> "Unknown"

\* the comparison as < instead of <=
parse_battery_level_airstatus_lt(raw_status) ==
    IF HexValue(raw_status) < 10 THEN Some(HexValue(raw_status) * 10) ELSE None

\* airstatus.py: Optional[int], None above 10
parse_battery_level_airstatus(raw_status) ==
    IF HexValue(raw_status) <= 10 THEN Some(HexValue(raw_status) * 10) ELSE None

\* main.py: int, -1 above 10
parse_battery_level_main(raw_status) ==
    IF HexValue(raw_status) <= 10 THEN Some(HexValue(raw_status) * 10) ELSE Some(-1)

\* the test as != 0 instead of == 0
is_flipped_inverted(raw) == (HexValue(At(raw, 10)) \div 2) % 2 # 0

\* (int(chr(raw[10]), 16) & 0x02) == 0
is_flipped(raw) == ~BitSet(HexValue(At(raw, 10)), 1)

\* airstatus.py: the left/right pair, exchanged when flipped
maybe_flip(raw, left, right) ==
    IF is_flipped(raw) THEN [right |-> left, left |-> right]
                       ELSE [right |-> right, left |-> left]

\* the three masks applied to charging_status
charging_left_raw(charging_status) == BitSet(charging_status, 0)
charging_right_raw(charging_status) == BitSet(charging_status, 1)

\* the case mask as 0b1000 instead of 0b0100
charging_case_bit3(charging_status) == BitSet(charging_status, 3)

charging_case(charging_status) == BitSet(charging_status, 2)

\* The reads a decode performs, in evaluation order: <<index, parsed as hex>>.
ReadOrder_airstatus ==
    << <<7, FALSE>>, <<14, TRUE>>, <<15, TRUE>>, <<13, TRUE>>, <<12, TRUE>>,
       <<10, TRUE>> >>
ReadOrder_main ==
    << <<7, FALSE>>, <<13, TRUE>>, <<12, TRUE>>, <<15, TRUE>>, <<14, TRUE>>,
       <<10, TRUE>> >>

\* The exception the first failing read raises, "none" when every read succeeds.
RECURSIVE FirstError(_, _)
FirstError(raw, order) ==
    IF order = << >> THEN "none"
    ELSE IF Head(order)[1] >= Len(raw) THEN "IndexError"
    ELSE IF Head(order)[2] /\ HexValue(At(raw, Head(order)[1])) = -1 THEN "ValueError"
    ELSE FirstError(raw, Tail(order))

ParseError(v, raw) ==
    FirstError(raw, IF v = "airstatus" THEN ReadOrder_airstatus ELSE ReadOrder_main)

\* airstatus.py parse_airpods_data, for a raw that raises nothing
parse_airpods_data_airstatus(raw) ==
    LET charging_status == HexValue(At(raw, 14)) IN
    [connected |-> TRUE,
     model     |-> ModelName(At(raw, 7)),
     charge    |-> [case |-> parse_battery_level_airstatus(At(raw, 15))]
                   @@ maybe_flip(raw,
                                 parse_battery_level_airstatus(At(raw, 13)),
                                 parse_battery_level_airstatus(At(raw, 12))),
     charging  |-> [case |-> charging_case(charging_status)]
                   @@ maybe_flip(raw,
                                 charging_left_raw(charging_status),
                                 charging_right_raw(charging_status))]

\* main.py parse_airpods_data, for a raw that raises nothing
parse_airpods_data_main(raw) ==
    LET left_status     == parse_battery_level_main(At(raw, 13))
        right_status    == parse_battery_level_main(At(raw, 12))
        case_status     == parse_battery_level_main(At(raw, 15))
        charging_status == HexValue(At(raw, 14))
        left_charging   == charging_left_raw(charging_status)
        right_charging  == charging_right_raw(charging_status)
        case_charging   == charging_case(charging_status)
        flip            == is_flipped(raw)
    IN
    [connected      |-> TRUE,
     charge         |-> [left  |-> IF flip THEN right_status ELSE left_status,
                         right |-> IF flip THEN left_status ELSE right_status,
                         case  |-> case_status],
     charging_left  |-> IF flip THEN right_charging ELSE left_charging,
     charging_right |-> IF flip THEN left_charging ELSE right_charging,
     charging_case  |-> case_charging,
     model          |-> ModelName(At(raw, 7))]

parse_airpods_data(v, raw) ==
    IF v = "airstatus" THEN parse_airpods_data_airstatus(raw)
                       ELSE parse_airpods_data_main(raw)

(* ------------------------- advertisement filter ------------------------ *)

\* dict.pop(key, None): the value taken and the mapping left behind
PopValue(md, key) == IF key \in DOMAIN md THEN Some(md[key]) ELSE None
PopRest(md, key) == [x \in (DOMAIN md) \ {key} |-> md[x]]

\* `data` as a condition: neither None nor the empty bytes object
Truthy(data) == data # None /\ data[1] # << >>

\* the comparison as > instead of >=
Passes_strict(d, data) == d.rssi > MIN_RSSI /\ Truthy(data)

\* d.rssi >= MIN_RSSI and data
Passes(d, data) == d.rssi >= MIN_RSSI /\ Truthy(data)

\* the length test as <= instead of ==
HasExpectedLength_atMost(data_hex) == Len(data_hex) <= AIRPODS_DATA_LENGTH

\* len(data_hex) == AIRPODS_DATA_LENGTH
HasExpectedLength(data_hex) == Len(data_hex) = AIRPODS_DATA_LENGTH

\* The for loop of fetch_airpods_raw_data from record k on: the value
\* returned and the records as the loop leaves them.
RECURSIVE FilterFrom(_, _)
FilterFrom(devs, k) ==
    IF k > Len(devs) THEN [val |-> None, devices |-> devs]
    ELSE LET d      == devs[k]
             data   == PopValue(d.md, AIRPODS_MANUFACTURER)
             popped == [devs EXCEPT ![k].md = PopRest(d.md, AIRPODS_MANUFACTURER)]
         IN IF Passes(d, data) /\ HasExpectedLength(hexlify(data[1]))
                THEN [val |-> Some(hexlify(data[1])), devices |-> popped]
                ELSE FilterFrom(popped, k + 1)

(* -------------------------------- inputs ------------------------------- *)

Variants == {"airstatus", "main"}

TimesValues == (0..MaxTimes) \cup {RETRY_TIMES}

\* a 27-byte proximity payload; bytes 3, 5, 6, 7 carry hex indices 7, 10,
\* 12/13 and 14/15
Payload(b3, b5, b6, b7) == <<7, 25, 1, b3, 32, b5, b6, b7>> \o [k \in 1..19 |-> 0]

\* model e, not flipped, right-raw 6, left-raw 5, charging 0b0101, case 7
BlobA == Payload(14, 43, 101, 87)
\* model f, flipped, right-raw f, left-raw 3, charging 0b0010, case a
BlobB == Payload(15, 11, 243, 42)
\* 7 bytes: hex length 14
ShortBlob == <<7, 25, 1, 14, 32, 43, 101>>
\* 28 bytes: hex length 56
LongBlob == BlobA \o <<0>>
\* another vendor's blob, 27 bytes
OtherBlob == Payload(2, 43, 85, 5)

ManufacturerDatas ==
    { (6 :> OtherBlob),
      (AIRPODS_MANUFACTURER :> << >>),
      (AIRPODS_MANUFACTURER :> ShortBlob),
      (AIRPODS_MANUFACTURER :> LongBlob),
      (AIRPODS_MANUFACTURER :> BlobA) @@ (6 :> OtherBlob),
      (AIRPODS_MANUFACTURER :> BlobB) }

RSSIs == {MIN_RSSI - 1, MIN_RSSI, MIN_RSSI + 10}

Records == [rssi : RSSIs, md : ManufacturerDatas]

Batches == UNION {[1..n -> Records] : n \in 0..MaxDevices}

(* ----------------------------- the program ----------------------------- *)

\* variant    which file runs: "airstatus" or "main"
\* times      the wrapper's `times`
\* pc         "call" (wrapper loop head), "filter" (f after discover),
\*            "check" (wrapper holds f's value), "returned" (main holds the
\*            wrapper's value), "done" (the process has ended)
\* i          iterations of range(times) started
\* devices    f's batch, as the loop has left it so far
\* val        f's latest value, then the wrapper's return value
\* stdout     the lines printed; exitCode the exit status; err the
\*            exception that ended the process, "none" otherwise
\* History, read by no action: scanned (the batch as discover returned it),
\* results (the value of each call of f that returned), trace (the calls of
\* f and the sleeps, in order).

Init ==
    /\ variant \in Variants
    /\ times \in TimesValues
    /\ pc = "call"
    /\ i = 0
    /\ devices = << >>
    /\ scanned = << >>
    /\ val = None
    /\ results = << >>
    /\ trace = << >>
    /\ stdout = << >>
    /\ exitCode = None
    /\ err = "none"

\* wrapper: the next iteration calls f, whose discover() returns a batch
Discover ==
    /\ pc = "call"
    /\ i < times
    /\ \E batch \in Batches :
        /\ devices' = batch
        /\ scanned' = batch
    /\ i' = i + 1
    /\ trace' = Append(trace, "call")
    /\ pc' = "filter"
    /\ UNCHANGED <<variant, times, val, results, stdout, exitCode, err>>

\* wrapper: the next iteration calls f, whose discover() raises; nothing
\* catches it, so the interpreter ends with exit status 1 and no output
DiscoverRaises ==
    /\ pc = "call"
    /\ i < times
    /\ i' = i + 1
    /\ trace' = Append(trace, "call")
    /\ err' = "ScanError"
    /\ exitCode' = Some(1)
    /\ pc' = "done"
    /\ UNCHANGED <<variant, times, devices, scanned, val, results, stdout>>

\* f: the loop over the batch
Filter ==
    /\ pc = "filter"
    /\ LET r == FilterFrom(devices, 1) IN
        /\ val' = r.val
        /\ devices' = r.devices
        /\ results' = Append(results, r.val)
    /\ pc' = "check"
    /\ UNCHANGED <<variant, times, i, scanned, trace, stdout, exitCode, err>>

\* the sleep placed before the test of val
ReturnVal_sleepsFirst ==
    /\ pc = "check"
    /\ val # None
    /\ trace' = Append(trace, "sleep")
    /\ pc' = "returned"
    /\ devices' = << >>
    /\ scanned' = << >>
    /\ UNCHANGED <<variant, times, i, val, results, stdout, exitCode, err>>

\* wrapper: val is not None, return it
ReturnVal ==
    /\ pc = "check"
    /\ val # None
    /\ pc' = "returned"
    /\ devices' = << >>
    /\ scanned' = << >>
    /\ UNCHANGED <<variant, times, i, val, results, trace, stdout, exitCode, err>>

\* wrapper: val is None, time.sleep(sleep_ms / 1000)
Sleep ==
    /\ pc = "check"
    /\ val = None
    /\ trace' = Append(trace, "sleep")
    /\ pc' = "call"
    /\ devices' = << >>
    /\ scanned' = << >>
    /\ UNCHANGED <<variant, times, i, val, results, stdout, exitCode, err>>

\* wrapper: range(times) is used up, return None
Exhausted ==
    /\ pc = "call"
    /\ i >= times
    /\ val' = None
    /\ pc' = "returned"
    /\ UNCHANGED <<variant, times, i, devices, scanned, results, trace, stdout, exitCode,
                   err>>

\* main: raw_data is None
MainAbsent ==
    /\ pc = "returned"
    /\ val = None
    /\ stdout' = Append(stdout, [connected |-> FALSE])
    /\ exitCode' = Some(1)
    /\ pc' = "done"
    /\ UNCHANGED <<variant, times, i, devices, scanned, val, results, trace, err>>

\* main: print(json.dumps(parse_airpods_data(raw_data)))
MainParse ==
    /\ pc = "returned"
    /\ val # None
    /\ LET e == ParseError(variant, val[1]) IN
        IF e = "none"
            THEN /\ stdout' = Append(stdout, parse_airpods_data(variant, val[1]))
                 /\ exitCode' = Some(0)
                 /\ err' = err
            ELSE /\ stdout' = stdout
                 /\ exitCode' = Some(1)
                 /\ err' = e
    /\ pc' = "done"
    /\ UNCHANGED <<variant, times, i, devices, scanned, val, results, trace>>

Next ==
    \/ Discover
    \/ DiscoverRaises
    \/ Filter
    \/ ReturnVal
    \/ Sleep
    \/ Exhausted
    \/ MainAbsent
    \/ MainParse

Spec == Init /\ [][Next]_vars

(* ------------------------- the decoder on its own ---------------------- *)

Bytes == 0..255
FewModelBytes == {2, 14}
FewFlipBytes == {11, 43}
FewBatteryBytes == {101, 243}
FewChargingBytes == {87, 42}

\* every value of one of the four payload bytes, with a few values of the others
DecodeBlobs ==
    {Payload(a, b, c, d) : a \in Bytes, b \in FewFlipBytes,
                           c \in FewBatteryBytes, d \in FewChargingBytes}
    \cup {Payload(a, b, c, d) : a \in FewModelBytes, b \in Bytes,
                                c \in FewBatteryBytes, d \in FewChargingBytes}
    \cup {Payload(a, b, c, d) : a \in FewModelBytes, b \in FewFlipBytes,
                                c \in Bytes, d \in FewChargingBytes}
    \cup {Payload(a, b, c, d) : a \in FewModelBytes, b \in FewFlipBytes,
                                c \in FewBatteryBytes, d \in Bytes}

\* inputs hexlify cannot produce: too short, a non-hex character, upper case
MalformedInputs ==
    { SubSeq(hexlify(BlobA), 1, 10),
      SubSeq(hexlify(BlobA), 1, 15),
      [hexlify(BlobA) EXCEPT ![14] = "g"],
      [hexlify(BlobA) EXCEPT ![15] = "g"],
      [hexlify(BlobA) EXCEPT ![8] = "E"],
      [hexlify(BlobA) EXCEPT ![13] = "A"] }

DecodeInputs == {hexlify(b) : b \in DecodeBlobs} \cup MalformedInputs

\* main right after the wrapper returned `raw` from its first call
InitDecode ==
    /\ variant \in Variants
    /\ times = RETRY_TIMES
    /\ pc = "returned"
    /\ i = 1
    /\ devices = << >>
    /\ scanned = << >>
    /\ \E raw \in DecodeInputs : val = Some(raw)
    /\ results = <<val>>
    /\ trace = <<"call">>
    /\ stdout = << >>
    /\ exitCode = None
    /\ err = "none"

NextDecode == MainParse

DecodeSpec == InitDecode /\ [][NextDecode]_vars

(* ------------------------------ properties ----------------------------- *)

NumCalls == Cardinality({k \in DOMAIN trace : trace[k] = "call"})
NumSleeps == Cardinality({k \in DOMAIN trace : trace[k] = "sleep"})
NumAbsent == Cardinality({k \in DOMAIN results : results[k] = None})

\* call, sleep, call, ..., call: every sleep lies between two calls
Alternating(t) ==
    /\ Len(t) % 2 = 1
    /\ \A k \in DOMAIN t : t[k] = (IF k % 2 = 1 THEN "call" ELSE "sleep")

\* C1: when every one of the times >= 1 calls of the probe returned absent,
\* the wrapper returns absent after exactly `times` calls and exactly
\* `times - 1` sleeps.
C1_ExhaustedCallsAndSleeps ==
    (pc = "returned" /\ val = None /\ times >= 1)
        => /\ NumAbsent = Len(results)
           /\ NumCalls = times
           /\ NumSleeps = times - 1

\* C2: when the probe returned absent k times and then v, the wrapper
\* returns v after exactly k + 1 calls and k sleeps, every sleep between two
\* calls, with k < times; nothing is called or slept after that.
C2_SuccessCallsAndSleeps ==
    (pc \in {"returned", "done"} /\ val # None)
        => LET k == NumAbsent IN
           /\ k < times
           /\ Len(results) = k + 1
           /\ \A j \in 1..k : results[j] = None
           /\ results[k + 1] = val
           /\ NumCalls = k + 1
           /\ NumSleeps = k
           /\ Alternating(trace)

C2_Witness ==
    /\ pc = "done"
    /\ val # None
    /\ times = RETRY_TIMES
    /\ NumAbsent = 2
    /\ NumSleeps = 2

\* C3: a failure of the scan never leaves the retry loop: no run ends with
\* the scan's exception.
C3_ScanFailureConsumed == pc = "done" => err # "ScanError"

\* C4: a run that has ended wrote exactly one line; it is connected = false
\* with exit status 1 iff every attempt returned absent, and otherwise a
\* status with connected = true and exit status 0.
C4_CliOutcome ==
    pc = "done"
        => /\ Len(stdout) = 1
           /\ (val = None) <=> (stdout[1] = [connected |-> FALSE])
           /\ (val = None) <=> (exitCode = Some(1))
           /\ (val # None) <=> (stdout[1].connected /\ exitCode = Some(0))
           /\ (val = None) <=> (NumAbsent = Len(results) /\ NumCalls = Len(results))

\* a record that passes the three checks of the filter
Qualifies(r) ==
    /\ 76 \in DOMAIN r.md
    /\ r.rssi >= -60
    /\ Len(hexlify(r.md[76])) = 54

\* C5: one attempt returns the hex encoding of the blob of the first record
\* that has a blob under vendor 76, RSSI >= -60 and 54 hex characters, and
\* absent when no record of the batch has all three.
C5_FirstQualifyingRecord ==
    pc = "check"
        => IF \E k \in DOMAIN scanned : Qualifies(scanned[k])
               THEN LET first == CHOOSE k \in DOMAIN scanned :
                                    /\ Qualifies(scanned[k])
                                    /\ \A j \in 1..(k - 1) : ~Qualifies(scanned[j])
                    IN val = Some(hexlify(scanned[first].md[76]))
               ELSE val = None

C5_Witness ==
    /\ pc = "check"
    /\ Len(scanned) = 2
    /\ 76 \in DOMAIN scanned[1].md
    /\ Len(scanned[1].md[76]) = 27
    /\ scanned[1].rssi < -60
    /\ scanned[2].rssi = -60
    /\ Qualifies(scanned[2])
    /\ val = Some(hexlify(scanned[2].md[76]))

\* C9: the filter leaves the manufacturer data of every scanned record as
\* it was.
C9_FilterDoesNotMutate ==
    pc = "check"
        => /\ Len(devices) = Len(scanned)
           /\ \A k \in DOMAIN scanned : devices[k].md = scanned[k].md

LowerHex == {HexChars[n] : n \in 1..16}

\* C10: every payload the filter returns is 54 lowercase hex characters, so
\* the decode raises nothing: the run goes on to print a status with
\* connected = true and ends with exit status 0.
C10_DecodeNeverFails ==
    val # None
        => /\ Len(val[1]) = 54
           /\ \A k \in DOMAIN val[1] : val[1][k] \in LowerHex
           /\ ParseError(variant, val[1]) = "none"
           /\ pc \in {"check", "returned"} => ENABLED (ReturnVal \/ MainParse)
           /\ pc = "done" => /\ err = "none"
                             /\ exitCode = Some(0)
                             /\ Len(stdout) = 1
                             /\ stdout[1].connected

C10_Witness ==
    /\ pc = "done"
    /\ val # None
    /\ Len(stdout) = 1
    /\ stdout[1].connected
    /\ NumAbsent >= 1

(* ------------------------ properties of the decoder -------------------- *)

\* the decode ran to its end and its status was printed
Decoded == pc = "done" /\ val # None /\ err = "none" /\ Len(stdout) = 1

Digit(raw, k) == HexValue(At(raw, k))

FlipBitClear(raw) == (Digit(raw, 10) \div 2) % 2 = 0

\* the field of a status, whichever variant printed it
ChargeOf(out, side) == out.charge[side]
ChargingOf(out, side) ==
    IF "charging" \in DOMAIN out THEN out.charging[side]
    ELSE CASE side = "left"  -> out.charging_left
           [] side = "right" -> out.charging_right
           [] side = "case"  -> out.charging_case

\* the output field fed by a battery index
FieldOf(raw, k) ==
    CASE k = 15 -> "case"
      [] k = 13 -> IF FlipBitClear(raw) THEN "right" ELSE "left"
      [] k = 12 -> IF FlipBitClear(raw) THEN "left" ELSE "right"

\* C6 as stated: digit d at index 12, 13 or 15 decodes to d * 10 for
\* d <= 10 and to null for d in 11..15, in both variants.
C6_BatteryLevelNull ==
    Decoded
        => \A k \in {12, 13, 15} :
              LET d == Digit(val[1], k) IN
              ChargeOf(stdout[1], FieldOf(val[1], k))
                  = (IF d <= 10 THEN Some(d * 10) ELSE None)

\* C6 amended: digit d at index 12, 13 or 15 decodes to d * 10 for d <= 10;
\* for d in 11..15 it decodes to null in airstatus.py and to the number -1
\* in main.py.  Every charge is null, -1 or one of 0, 10, ..., 100.
C6_BatteryLevelSentinel ==
    Decoded
        => /\ \A k \in {12, 13, 15} :
                LET d == Digit(val[1], k) IN
                ChargeOf(stdout[1], FieldOf(val[1], k))
                    = (IF d <= 10 THEN Some(d * 10)
                       ELSE IF variant = "airstatus" THEN None ELSE Some(-1))
           /\ \A side \in {"left", "right", "case"} :
                ChargeOf(stdout[1], side)
                    \in {None, Some(-1)} \cup {Some(10 * n) : n \in 0..10}

C6_Witness ==
    /\ Decoded
    /\ variant = "main"
    /\ Digit(val[1], 13) = 11
    /\ Digit(val[1], 12) = 10
    /\ ~FlipBitClear(val[1])
    /\ ChargeOf(stdout[1], "left") = Some(-1)
    /\ ChargeOf(stdout[1], "right") = Some(100)

\* the battery parse of the variant
LevelOf(v, c) ==
    IF v = "airstatus" THEN parse_battery_level_airstatus(c)
                       ELSE parse_battery_level_main(c)

\* C7: the payload is flipped iff bit 0x02 of the digit at index 10 is
\* clear: left then shows index 12 and right index 13, otherwise left shows
\* index 13 and right index 12.  Against any payload that differs only at
\* index 10 and has the other orientation, left and right charge and left
\* and right charging are exchanged, and case and model are the same.
C7_OrientationSwap ==
    Decoded
        => LET p   == val[1]
               out == stdout[1]
           IN
           /\ ChargeOf(out, "left")
                  = LevelOf(variant, At(p, IF FlipBitClear(p) THEN 12 ELSE 13))
           /\ ChargeOf(out, "right")
                  = LevelOf(variant, At(p, IF FlipBitClear(p) THEN 13 ELSE 12))
           /\ \A e \in 1..16 :
                LET q    == [p EXCEPT ![11] = HexChars[e]]
                    outq == parse_airpods_data(variant, q)
                IN FlipBitClear(q) # FlipBitClear(p)
                    => /\ ChargeOf(out, "left") = ChargeOf(outq, "right")
                       /\ ChargeOf(out, "right") = ChargeOf(outq, "left")
                       /\ ChargingOf(out, "left") = ChargingOf(outq, "right")
                       /\ ChargingOf(out, "right") = ChargingOf(outq, "left")
                       /\ ChargeOf(out, "case") = ChargeOf(outq, "case")
                       /\ ChargingOf(out, "case") = ChargingOf(outq, "case")
                       /\ out.model = outq.model

C7_Witness ==
    /\ Decoded
    /\ FlipBitClear(val[1])
    /\ Digit(val[1], 12) = 6
    /\ Digit(val[1], 13) = 5
    /\ ChargeOf(stdout[1], "left") = Some(60)
    /\ ChargeOf(stdout[1], "right") = Some(50)
    /\ ChargingOf(stdout[1], "left") # ChargingOf(stdout[1], "right")

\* C8: with c the digit at index 14, case charging is bit 2 of c; left
\* charging is bit 0 and right charging bit 1 when not flipped, and the
\* other way round when flipped; bit 3 of c changes nothing in the status.
C8_ChargingFlags ==
    Decoded
        => LET p   == val[1]
               out == stdout[1]
               c   == Digit(p, 14)
               bit(n) == (c \div (2 ^ n)) % 2 = 1
               c3  == IF bit(3) THEN c - 8 ELSE c + 8
           IN
           /\ ChargingOf(out, "case") = bit(2)
           /\ ChargingOf(out, "left") = (IF FlipBitClear(p) THEN bit(1) ELSE bit(0))
           /\ ChargingOf(out, "right") = (IF FlipBitClear(p) THEN bit(0) ELSE bit(1))
           /\ parse_airpods_data(variant, [p EXCEPT ![15] = HexChars[c3 + 1]]) = out

C8_Witness ==
    /\ Decoded
    /\ Digit(val[1], 14) = 9
    /\ ~FlipBitClear(val[1])
    /\ ChargingOf(stdout[1], "left")
    /\ ~ChargingOf(stdout[1], "right")
    /\ ~ChargingOf(stdout[1], "case")

====
